---- MODULE Spec2Model ----
(***************************************************************************)
(* Model of the sell-tax aware Aerodrome quote service.                    *)
(*                                                                         *)
(*   Spec       get_aerodrome_quote (src/src/aerodrome.py) for one request *)
(*              that went through SwapAerodromeBody validation             *)
(*              (src/src/models.py), against an arbitrary Route Finder and *)
(*              an arbitrary chain state.                                  *)
(*   SpecCache  concurrent cache_swap_data calls (src/src/redis_utils.py)  *)
(*              against one Redis server whose keys expire.                *)
(*   SpecApp    swap_aerodrome (src/src/app.py): one worker answering      *)
(*              requests in turn, with the quote cache in front.           *)
(*                                                                         *)
(* An address is a record [id, cs]: the 20 bytes it denotes and the letter *)
(* case it is written in ("l" all lower case, "c" EIP-55 checksum case,    *)
(* "u" any other mixed case), so that str.lower() and to_checksum_address  *)
(* are conversions and not the identity.                                   *)
(***************************************************************************)
EXTENDS Integers, Sequences, FiniteSets, TLC

VARIABLES
    body,        \* the request body as posted (SwapAerodromeBody fields)
    pc,          \* position of the request inside the handler
    tokens,      \* [in, out, is_sell]: token_in_obj, token_out_obj, is_sell
    quote,       \* <<>> (None) or <<[amount_in, amount_out, path]>>
    canon,       \* [lp, token_path, swap_path]
    chainv,      \* [fee_bps, fee, reserves, token0]: values read from chain
    corr,        \* <<>> (not computed) or <<[remaining, real_base_amount]>>
    ret,         \* how get_aerodrome_quote ended
    calls,       \* cache_swap_data: per call [swap_id, data, pc]
    redis,       \* Redis: [lock, cache], both keyed by swap_id
    ghost,       \* history of the lock: owner per swap_id, foreign deletes
    app          \* swap_aerodrome: [served, response] of the worker

qvars == <<body, pc, tokens, quote, canon, chainv, corr, ret, app>>
cvars == <<calls, redis, ghost, app>>
vars == <<body, pc, tokens, quote, canon, chainv, corr, ret, calls, redis, ghost, app>>

----------------------------------------------------------------------------
(* Addresses and their letter case *)

Addr(i, c) == [id |-> i, cs |-> c]

\* str.lower() on an address string
Lower(a) == [a EXCEPT !.cs = "l"]

\* Web3.to_checksum_address / eth_utils.to_checksum_address
ToChecksum(a) == [a EXCEPT !.cs = "c"]

\* None where an address is expected (Token.wrapped_token_address)
NoAddr == Addr("none", "l")

ZERO_ADDR == Addr("ZERO", "l")

\* CHAIN_MAP[chain_id]["factory_address"], as configured
factory_address == Addr("FACTORY", "u")

\* chain.eth: the native token sentinel, whose wrapped form is WETH
ChainEth == [token_address |-> Addr("ETH", "u"),
             wrapped_token_address |-> Addr("WETH", "c")]

\* get_token: the Token built for an ERC-20 address
GetToken(a) == [token_address |-> ToChecksum(a),
                wrapped_token_address |-> NoAddr]

----------------------------------------------------------------------------
(* Python arithmetic *)

RECURSIVE MulDivQR(_, _, _)
\* <<q, r>> with a*b = q*c + r and 0 <= r < c, for 0 <= a < c, b >= 0, c > 0,
\* by binary long multiplication so that no intermediate exceeds 3*c.
MulDivQR(a, b, c) ==
    IF b = 0 THEN <<0, 0>>
    ELSE LET h == MulDivQR(a, b \div 2, c)
             t == 2 * h[2] + (IF b % 2 = 1 THEN a ELSE 0)
         IN  <<2 * h[1] + (t \div c), t % c>>

Abs(x) == IF x < 0 THEN 0 - x ELSE x

\* Python's (a * b) / c on ints: a float, kept as its integer part (the
\* truncation toward zero that int() takes) and whether it is a whole
\* number. Exact while |a*b| < 2^53, which every value of the model is.
\* Requires b >= 0 and c # 0.
TrueDiv(a, b, c) ==
    LET qa  == Abs(a) \div Abs(c)
        qr  == MulDivQR(Abs(a) % Abs(c), b, Abs(c))
        mag == qa * b + qr[1]
        neg == (a < 0) # (c < 0)
    IN  [trunc |-> IF neg THEN 0 - mag ELSE mag, whole |-> qr[2] = 0]

\* int(x) of a float
IntOf(f) == f.trunc

RECURSIVE Digits(_)
Digits(n) ==
    IF n < 10 THEN <<n>> ELSE Append(Digits(n \div 10), n % 10)

\* str(n) of an int: its sign and its decimal digits
Str(n) == [neg |-> n < 0, digits |-> Digits(Abs(n))]

----------------------------------------------------------------------------
(* The environment: request bodies, the Route Finder, the chain *)

MaxHops == 3

\* The pools the Route Finder knows, as sugar reports them
\* (lp, token0_address, token1_address, stable).
Pools == {
    [lp |-> Addr("PAIR1", "c"), token0_address |-> Addr("AK", "c"),
     token1_address |-> Addr("WETH", "c"), stable |-> FALSE],
    [lp |-> Addr("PAIR2", "c"), token0_address |-> Addr("USDC", "c"),
     token1_address |-> Addr("AK", "c"), stable |-> FALSE],
    [lp |-> Addr("P3", "c"), token0_address |-> Addr("WETH", "c"),
     token1_address |-> Addr("USDC", "c"), stable |-> TRUE],
    [lp |-> Addr("P4", "c"), token0_address |-> Addr("USDC", "c"),
     token1_address |-> Addr("DAI", "c"), stable |-> FALSE] }

\* quote.path: any non-empty sequence of at most MaxHops pools. The Route
\* Finder is external, so nothing is assumed about its continuity.
Routes == UNION { [1..n -> Pools] : n \in 1..MaxHops }

TokenInAmounts == {1000, 1000000}
NaiveAmountsOut == {398, 391003}
FeeBpsValues == {0, 30}
ReserveValues == { <<50000000, 20000000>>, <<20000000, 50000000>> }

Bodies ==
    [ token_in : {Addr("AK", "l"), Addr("AK", "u"), Addr("WETH", "u"), ZERO_ADDR},
      token_out : {Addr("DAI", "u"), ZERO_ADDR},
      token_in_amount : TokenInAmounts,
      pair_address : {Addr("PAIR1", "l"), Addr("PAIR1", "u"), Addr("PAIR2", "u")},
      agent_key_address : {Addr("AK", "l"), Addr("AK", "u")},
      total_fee_percent : {-1, 0, 30, 1001} ]

\* pair.functions.token0(): what the pair contract at address a stores
PairToken0(a) ==
    (CHOOSE p \in Pools : Lower(p.lp) = Lower(a)).token0_address

\* One hop of router.getAmountsOut: the output of a hop is the input scaled
\* by the price of the token bought (an external contract; any strictly
\* increasing pricing serves).
HopOut(x, hop) ==
    IF hop.to.id = "USDC" THEN (x * 3) \div 4
    ELSE IF hop.to.id = "DAI" THEN (x * 2) \div 3
    ELSE x \div 2

RECURSIVE GetAmountsOut(_, _)
\* router.getAmountsOut(amount, hops): amount followed by one amount per hop
GetAmountsOut(amount, hops) ==
    IF hops = <<>> THEN <<amount>>
    ELSE LET front == GetAmountsOut(amount, SubSeq(hops, 1, Len(hops) - 1))
         IN  Append(front, HopOut(front[Len(front)], hops[Len(hops)]))

----------------------------------------------------------------------------
(* get_aerodrome_quote: its pure steps *)

\* body.token_in.lower() == ZERO_ADDR
InIsZero(b) == Lower(b.token_in) = ZERO_ADDR

OutIsZero(b) == Lower(b.token_out) = ZERO_ADDR

\* token_in_obj: chain.eth for the zero address, else the fetched token
TokenInObj(b) == IF InIsZero(b) THEN ChainEth ELSE GetToken(b.token_in)

TokenOutObj(b) == IF OutIsZero(b) THEN ChainEth ELSE GetToken(b.token_out)

\* is_sell = token_in_obj.token_address.lower() == body.agent_key_address.lower()
IsSell(tok, b) == Lower(tok.token_address) = Lower(b.agent_key_address)

\* (token_in_obj.wrapped_token_address or token_in_obj.token_address).lower()
PathStart(tok) ==
    Lower(IF tok.wrapped_token_address # NoAddr
          THEN tok.wrapped_token_address ELSE tok.token_address)

\* NextToken with the mismatch tolerated: the walk goes on through token1
NextTokenLenient(tail, pool) ==
    IF tail = Lower(pool.token0_address) THEN Lower(pool.token1_address)
    ELSE IF tail = Lower(pool.token1_address) THEN Lower(pool.token0_address)
    ELSE Lower(pool.token1_address)

\* One step of the walk over quote.path: the token the pool leads to from
\* tail, or NoAddr when tail is neither of the pool's tokens.
NextToken(tail, pool) ==
    IF tail = Lower(pool.token0_address) THEN Lower(pool.token1_address)
    ELSE IF tail = Lower(pool.token1_address) THEN Lower(pool.token0_address)
    ELSE NoAddr

RECURSIVE WalkPath(_, _, _)
\* The loop over quote.path from pool i on, token_path being the path so
\* far: the finished token path, or the pool the ValueError names.
WalkPath(token_path, path, i) ==
    IF i > Len(path) THEN [ok |-> TRUE, token_path |-> token_path, pool |-> NoAddr]
    ELSE LET nxt == NextToken(token_path[Len(token_path)], path[i])
         IN  IF nxt = NoAddr
             THEN [ok |-> FALSE, token_path |-> token_path, pool |-> path[i].lp]
             ELSE WalkPath(Append(token_path, nxt), path, i + 1)

\* Hop with its two ends exchanged
HopReversed(from, to) ==
    [from |-> ToChecksum(to), to |-> ToChecksum(from),
     stable |-> FALSE, factory |-> ToChecksum(factory_address)]

\* One entry of swap_path
Hop(from, to) ==
    [from |-> ToChecksum(from), to |-> ToChecksum(to),
     stable |-> FALSE, factory |-> ToChecksum(factory_address)]

\* swap_path: one hop per consecutive pair of token_path
SwapPath(token_path) ==
    [i \in 1..(Len(token_path) - 1) |-> Hop(token_path[i], token_path[i + 1])]

\* lp.lower() != body.pair_address.lower(), negated
IsTaxedPool(lp, b) == Lower(lp) = Lower(b.pair_address)

\* PassesThrough with the two tests joined by "and"
PassesThroughBoth(is_sell, lp, b) == ~is_sell /\ ~IsTaxedPool(lp, b)

\* The two early returns: not a sale, or not through the taxed pool
PassesThrough(is_sell, lp, b) == ~is_sell \/ ~IsTaxedPool(lp, b)

\* fee = int((amount_in_wei * int(body.total_fee_percent)) / 1000)
Fee(amount_in_wei, total_fee_percent) ==
    IntOf(TrueDiv(amount_in_wei * total_fee_percent, 1, 1000))

\* is_ak_token0 = token0 == body.agent_key_address.lower()
IsAkToken0(token0, b) == Lower(token0) = Lower(b.agent_key_address)

BaseReserve(reserves, is_ak_token0) ==
    IF is_ak_token0 THEN reserves[2] ELSE reserves[1]

TokenReserve(reserves, is_ak_token0) ==
    IF is_ak_token0 THEN reserves[1] ELSE reserves[2]

\* Remaining with the pool fee taken before the transfer tax
RemainingPoolFeeFirst(amount_in_wei, fee, fee_bps) ==
    (amount_in_wei - ((amount_in_wei * fee_bps) \div 10000)) - fee

\* remaining = amount_in_wei - fee; remaining -= (remaining * fee_bps) // 10000
Remaining(amount_in_wei, fee, fee_bps) ==
    LET afterTax == amount_in_wei - fee
    IN  afterTax - ((afterTax * fee_bps) \div 10000)

\* real_base_amount = (remaining * base_reserve) / (token_reserve + remaining)
RealBaseAmount(remaining, base_reserve, token_reserve) ==
    TrueDiv(remaining, base_reserve, token_reserve + remaining)

\* Whether the reply of getAmountsOut unpacks into `_, final_quote`
Unpacks(amounts) == Len(amounts) = 2

\* FinalQuote without the forwarding: the naive amount whatever the path
FinalQuoteNaive(amount_out, token_path, amounts) == amount_out

\* final_quote: quote.amount_out, replaced by the second element of the
\* forwarding call's reply when the path has more than two tokens
FinalQuote(amount_out, token_path, amounts) ==
    IF Len(token_path) > 2 THEN amounts[2] ELSE amount_out

----------------------------------------------------------------------------
(* How the operation ends *)

Pending == [kind |-> "pending", result |-> <<>>, reason |-> <<>>,
            exc |-> "", pool |-> NoAddr]

\* return result, reason   (None is the empty sequence)
Returned(result, reason) ==
    [kind |-> "returned", result |-> result, reason |-> reason,
     exc |-> "", pool |-> NoAddr]

\* an exception leaving get_aerodrome_quote; pool is the pool it names
Raised(exc, pool) ==
    [kind |-> "raised", result |-> <<>>, reason |-> <<>>,
     exc |-> exc, pool |-> pool]

\* SwapAerodromeBody(**data) raised ValidationError: HTTP 400, no quote run
Rejected == [kind |-> "rejected", result |-> <<>>, reason |-> <<>>,
             exc |-> "ValidationError", pool |-> NoAddr]

NoTokens == [in |-> ChainEth, out |-> ChainEth, is_sell |-> FALSE]
NoCanon == [lp |-> NoAddr, token_path |-> <<>>, swap_path |-> <<>>]
NoChain == [fee_bps |-> 0, fee |-> 0, reserves |-> <<0, 0>>, token0 |-> NoAddr]

NoCalls == <<>>
NoRedis == [lock |-> {}, cache |-> <<>>]
NoGhost == [owner |-> <<>>, foreign |-> FALSE]

\* swap_aerodrome has answered nothing yet
NoApp == [served |-> 0, response |-> <<>>]

----------------------------------------------------------------------------
(* The request: validation, then get_aerodrome_quote step by step *)

Init ==
    /\ body \in Bodies
    /\ pc = "validate"
    /\ tokens = NoTokens
    /\ quote = <<>>
    /\ canon = NoCanon
    /\ chainv = NoChain
    /\ corr = <<>>
    /\ ret = Pending
    /\ calls = NoCalls
    /\ redis = NoRedis
    /\ ghost = NoGhost
    /\ app = NoApp

\* total_fee_percent: int = Field(..., ge=0): the only constraint on it
Valid(b) == b.total_fee_percent >= 0

Validate ==
    /\ pc = "validate"
    /\ IF Valid(body)
       THEN pc' = "resolve" /\ ret' = ret
       ELSE pc' = "done" /\ ret' = Rejected
    /\ UNCHANGED <<body, tokens, quote, canon, chainv, corr, cvars>>

ResolveTokens ==
    /\ pc = "resolve"
    /\ \/ /\ tokens' = [in |-> TokenInObj(body), out |-> TokenOutObj(body),
                        is_sell |-> IsSell(TokenInObj(body), body)]
          /\ pc' = "get_quote"
          /\ ret' = ret
       \/ \* a symbol()/decimals() call of get_token fails
          /\ ~InIsZero(body) \/ ~OutIsZero(body)
          /\ pc' = "done"
          /\ ret' = Raised("TokenResolutionFailed", NoAddr)
          /\ tokens' = tokens
    /\ UNCHANGED <<body, quote, canon, chainv, corr, cvars>>

\* quote = await chain.get_quote(...), the Route Finder offering `routes`
GetQuoteFrom(routes) ==
    /\ pc = "get_quote"
    /\ \/ \E path \in routes, out \in NaiveAmountsOut :
            /\ quote' = <<[amount_in |-> body.token_in_amount,
                           amount_out |-> out, path |-> path]>>
            /\ pc' = "canonicalize"
            /\ ret' = ret
       \/ \* if not quote: return None, "No quote found"
          /\ quote' = <<>>
          /\ pc' = "done"
          /\ ret' = Returned(<<>>, <<"No quote found">>)
       \/ \* chain.get_quote itself fails
          /\ quote' = <<>>
          /\ pc' = "done"
          /\ ret' = Raised("ChainReadFailed: get_quote", NoAddr)
    /\ UNCHANGED <<body, tokens, canon, chainv, corr, cvars>>

GetQuote == GetQuoteFrom(Routes)

Canonicalize ==
    /\ pc = "canonicalize"
    /\ LET path == quote[1].path
           w == WalkPath(<<PathStart(tokens.in)>>, path, 1)
       IN  IF w.ok
           THEN /\ canon' = [lp |-> path[1].lp, token_path |-> w.token_path,
                             swap_path |-> SwapPath(w.token_path)]
                /\ pc' = "decide"
                /\ ret' = ret
           ELSE /\ canon' = canon
                /\ pc' = "done"
                /\ ret' = Raised("ValueError: token_in not found in pool", w.pool)
    /\ UNCHANGED <<body, tokens, quote, chainv, corr, cvars>>

ReturnNaive ==
    /\ pc = "decide"
    /\ PassesThrough(tokens.is_sell, canon.lp, body)
    /\ pc' = "done"
    /\ ret' = Returned(<<[quote |-> Str(quote[1].amount_out),
                          path |-> canon.swap_path]>>, <<>>)
    /\ UNCHANGED <<body, tokens, quote, canon, chainv, corr, cvars>>

ReadChain ==
    /\ pc = "decide"
    /\ ~PassesThrough(tokens.is_sell, canon.lp, body)
    /\ \/ \E fb \in FeeBpsValues, rs \in ReserveValues :
            /\ chainv' = [fee_bps |-> fb,
                          fee |-> Fee(quote[1].amount_in, body.total_fee_percent),
                          reserves |-> rs,
                          token0 |-> Lower(PairToken0(body.pair_address))]
            /\ pc' = "correct"
            /\ ret' = ret
       \/ \* getFee, getAmountsOut(fee), getReserves or token0 fails
          /\ chainv' = chainv
          /\ pc' = "done"
          /\ ret' = Raised("ChainReadFailed", NoAddr)
    /\ UNCHANGED <<body, tokens, quote, canon, corr, cvars>>

Correct ==
    /\ pc = "correct"
    /\ LET ak0 == IsAkToken0(chainv.token0, body)
           base_reserve == BaseReserve(chainv.reserves, ak0)
           token_reserve == TokenReserve(chainv.reserves, ak0)
           remaining == Remaining(quote[1].amount_in, chainv.fee, chainv.fee_bps)
       IN  IF token_reserve + remaining = 0
           THEN /\ corr' = corr
                /\ pc' = "done"
                /\ ret' = Raised("ZeroDivisionError", NoAddr)
           ELSE /\ corr' = <<[remaining |-> remaining,
                             real_base_amount |->
                                 RealBaseAmount(remaining, base_reserve, token_reserve)]>>
                /\ pc' = "forward"
                /\ ret' = ret
    /\ UNCHANGED <<body, tokens, quote, canon, chainv, cvars>>

Forward ==
    /\ pc = "forward"
    /\ pc' = "done"
    /\ LET amount == IntOf(corr[1].real_base_amount)
           hops == SubSeq(canon.swap_path, 2, Len(canon.swap_path))
           amounts == GetAmountsOut(amount, hops)
           result == [quote |-> Str(FinalQuote(quote[1].amount_out,
                                               canon.token_path, amounts)),
                      path |-> canon.swap_path]
       IN  IF Len(canon.token_path) > 2
           THEN \/ ret' = IF amount < 0
                          THEN Raised("ChainReadFailed: getAmountsOut", NoAddr)
                          ELSE IF ~Unpacks(amounts)
                          THEN Raised("ValueError: too many values to unpack", NoAddr)
                          ELSE Returned(<<result>>, <<>>)
                \/ \* the forwarding call fails
                   ret' = Raised("ChainReadFailed: getAmountsOut", NoAddr)
           ELSE ret' = Returned(<<result>>, <<>>)
    /\ UNCHANGED <<body, tokens, quote, canon, chainv, corr, cvars>>

Next ==
    \/ Validate
    \/ ResolveTokens
    \/ GetQuote
    \/ Canonicalize
    \/ ReturnNaive
    \/ ReadChain
    \/ Correct
    \/ Forward

Spec == Init /\ [][Next]_vars

----------------------------------------------------------------------------
(* cache_swap_data: concurrent calls against one Redis server *)

NumCalls == 3

CallIds == 1..NumCalls

\* swap_id = f"{chain_id}-{token_in}-{token_out}"
SwapIds == {"8453-AK-WETH", "8453-AK-DAI"}

\* No call, where a call id is expected
NoCall == 0

\* json.dumps(data) of call c's quote; distinct calls carry distinct quotes
Payload(c) == c

\* No value under a cache key
NoPayload == 0

\* The calls in flight are any assignment of swap ids to the calls; Redis
\* starts with no lock key and no cache key.
InitCache ==
    /\ calls \in [CallIds -> [swap_id : SwapIds, pc : {"acquire"}]]
    /\ redis = [lock |-> {}, cache |-> [k \in SwapIds |-> NoPayload]]
    /\ ghost = [owner |-> [k \in SwapIds |-> NoCall], foreign |-> FALSE]
    /\ body = CHOOSE b \in Bodies : TRUE
    /\ pc = "idle"
    /\ tokens = NoTokens
    /\ quote = <<>>
    /\ canon = NoCanon
    /\ chainv = NoChain
    /\ corr = <<>>
    /\ ret = Pending
    /\ app = NoApp

\* redis_client.set(lock_key, "locked", ex=lock_timeout, nx=True): the key
\* is set only if absent; the caller then writes, or sleeps
Acquire(c) ==
    LET k == calls[c].swap_id
    IN  /\ calls[c].pc = "acquire"
        /\ IF k \notin redis.lock
           THEN /\ redis' = [redis EXCEPT !.lock = @ \cup {k}]
                /\ ghost' = [ghost EXCEPT !.owner[k] = c]
                /\ calls' = [calls EXCEPT ![c].pc = "locked"]
           ELSE /\ calls' = [calls EXCEPT ![c].pc = "sleep"]
                /\ UNCHANGED <<redis, ghost>>
        /\ UNCHANGED qvars

\* await asyncio.sleep(1); return await cache_swap_data(swap_id, data)
Retry(c) ==
    /\ calls[c].pc = "sleep"
    /\ calls' = [calls EXCEPT ![c].pc = "acquire"]
    /\ UNCHANGED <<redis, ghost, qvars>>

\* redis_client.set(cache_key, json.dumps(data), ex=cache_expiry_seconds),
\* or its failure; the finally clause runs after either
WriteCache(c) ==
    LET k == calls[c].swap_id
    IN  /\ calls[c].pc = "locked"
        /\ calls' = [calls EXCEPT ![c].pc = "release"]
        /\ \/ redis' = [redis EXCEPT !.cache[k] = Payload(c)]
           \/ redis' = redis
        /\ UNCHANGED <<ghost, qvars>>

\* finally: redis_client.delete(lock_key), whoever set the key it deletes
Release(c) ==
    LET k == calls[c].swap_id
    IN  /\ calls[c].pc = "release"
        /\ calls' = [calls EXCEPT ![c].pc = "done"]
        /\ redis' = [redis EXCEPT !.lock = @ \ {k}]
        /\ ghost' = [owner |-> [ghost.owner EXCEPT ![k] = NoCall],
                     foreign |-> ghost.foreign \/
                                 (k \in redis.lock /\ ghost.owner[k] # c)]
        /\ UNCHANGED qvars

\* ex=lock_timeout: Redis drops the lock key 15 seconds after it was set
ExpireLock(k) ==
    /\ k \in redis.lock
    /\ redis' = [redis EXCEPT !.lock = @ \ {k}]
    /\ ghost' = [ghost EXCEPT !.owner[k] = NoCall]
    /\ UNCHANGED <<calls, qvars>>

\* ex=cache_expiry_seconds: Redis drops the cache key after 15 minutes
ExpireCache(k) ==
    /\ redis.cache[k] # NoPayload
    /\ redis' = [redis EXCEPT !.cache[k] = NoPayload]
    /\ UNCHANGED <<calls, ghost, qvars>>

NextCache ==
    \/ \E c \in CallIds : Acquire(c)
    \/ \E c \in CallIds : Retry(c)
    \/ \E c \in CallIds : WriteCache(c)
    \/ \E c \in CallIds : Release(c)
    \/ \E k \in SwapIds : ExpireLock(k)
    \/ \E k \in SwapIds : ExpireCache(k)

SpecCache == InitCache /\ [][NextCache]_vars

----------------------------------------------------------------------------
(* swap_aerodrome: one worker answering requests one after the other, its *)
(* event loop running each get_quote() to completion                      *)

MaxRequests == 2

MaxAppHops == 2

\* The routes the Route Finder offers the worker
AppRoutes == UNION { [1..n -> Pools] : n \in 1..MaxAppHops }

\* The bodies posted to /swapAerodrome, useCache and chainId included
AppBodies ==
    [ use_cache : BOOLEAN,
      chain_id : {"8453"},
      token_in : {Addr("AK", "l"), Addr("WETH", "u")},
      token_out : {Addr("DAI", "u")},
      token_in_amount : TokenInAmounts,
      pair_address : {Addr("PAIR1", "l")},
      agent_key_address : {Addr("AK", "l")},
      total_fee_percent : {30} ]

\* swap_id = f"{body.chain_id}-{body.token_in}-{body.token_out}"
SwapId(b) == <<b.chain_id, b.token_in, b.token_out>>

AppSwapIds == { SwapId(b) : b \in AppBodies }

\* What a quote is computed from: every field of the body but use_cache
RequestOf(b) ==
    [chain_id |-> b.chain_id, token_in |-> b.token_in, token_out |-> b.token_out,
     token_in_amount |-> b.token_in_amount, pair_address |-> b.pair_address,
     agent_key_address |-> b.agent_key_address,
     total_fee_percent |-> b.total_fee_percent]

\* get_cached_swap_id(swap_id): the dict stored under the key, or None
GetCachedSwapId(k) == redis.cache[k]

\* if body.use_cache: if cached := await get_cached_swap_id(swap_id)
CacheHit == body.use_cache /\ GetCachedSwapId(SwapId(body)) # <<>>

\* The reply of swap_aerodrome; computed_for records the request the payload
\* was computed for
Response(code, payload, from_cache, computed_for) ==
    [code |-> code, payload |-> payload, from_cache |-> from_cache,
     computed_for |-> computed_for]

InitApp ==
    /\ body \in AppBodies
    /\ pc = "validate"
    /\ tokens = NoTokens
    /\ quote = <<>>
    /\ canon = NoCanon
    /\ chainv = NoChain
    /\ corr = <<>>
    /\ ret = Pending
    /\ calls = NoCalls
    /\ redis = [lock |-> {}, cache |-> [k \in AppSwapIds |-> <<>>]]
    /\ ghost = [owner |-> <<>>, foreign |-> FALSE,
                computed_for |-> [k \in AppSwapIds |-> <<>>]]
    /\ app = NoApp

\* return jsonify(cached), 200
ServeCached ==
    LET k == SwapId(body)
    IN  /\ pc = "resolve"
        /\ CacheHit
        /\ pc' = "responded"
        /\ app' = [served |-> app.served + 1,
                   response |-> <<Response(200, GetCachedSwapId(k), TRUE,
                                           ghost.computed_for[k])>>]
        /\ UNCHANGED <<body, tokens, quote, canon, chainv, corr, ret,
                       calls, redis, ghost>>

\* quote, error = await get_aerodrome_quote(body), entered on a cache miss
ResolveOnMiss == ~CacheHit /\ ResolveTokens

GetQuoteApp == GetQuoteFrom(AppRoutes)

\* The end of the request: 400 on a validation error or on (None, error),
\* the exception of get_aerodrome_quote left unhandled, else
\* cache_swap_data(swap_id, quote) under its lock and 200 with the quote
Respond ==
    LET k == SwapId(body)
    IN  /\ pc = "done"
        /\ pc' = "responded"
        /\ IF ret.kind = "rejected" \/
              (ret.kind = "returned" /\ (ret.reason # <<>> \/ ret.result = <<>>))
           THEN /\ app' = [served |-> app.served + 1,
                           response |-> <<Response(400, <<>>, FALSE, <<>>)>>]
                /\ UNCHANGED <<redis, ghost>>
           ELSE IF ret.kind = "raised"
           THEN /\ app' = [served |-> app.served + 1,
                           response |-> <<Response(500, <<>>, FALSE, <<>>)>>]
                /\ UNCHANGED <<redis, ghost>>
           ELSE \/ /\ k \notin redis.lock
                   /\ redis' = [redis EXCEPT !.cache[k] = ret.result]
                   /\ ghost' = [ghost EXCEPT !.computed_for[k] = <<RequestOf(body)>>]
                   /\ app' = [served |-> app.served + 1,
                              response |-> <<Response(200, ret.result, FALSE,
                                                      <<RequestOf(body)>>)>>]
                \/ \* the SET of the cache key fails; finally deletes the lock
                   /\ app' = [served |-> app.served + 1,
                              response |-> <<Response(500, <<>>, FALSE, <<>>)>>]
                   /\ UNCHANGED <<redis, ghost>>
        /\ UNCHANGED <<body, tokens, quote, canon, chainv, corr, ret, calls>>

\* The next POST /swapAerodrome reaches the worker
Arrive ==
    /\ pc = "responded"
    /\ app.served < MaxRequests
    /\ body' \in AppBodies
    /\ pc' = "validate"
    /\ tokens' = NoTokens
    /\ quote' = <<>>
    /\ canon' = NoCanon
    /\ chainv' = NoChain
    /\ corr' = <<>>
    /\ ret' = Pending
    /\ app' = [app EXCEPT !.response = <<>>]
    /\ UNCHANGED <<calls, redis, ghost>>

\* ex=cache_expiry_seconds: Redis drops the cache key after 15 minutes
ExpireCacheApp(k) ==
    /\ redis.cache[k] # <<>>
    /\ redis' = [redis EXCEPT !.cache[k] = <<>>]
    /\ ghost' = [ghost EXCEPT !.computed_for[k] = <<>>]
    /\ UNCHANGED <<body, pc, tokens, quote, canon, chainv, corr, ret, calls, app>>

NextApp ==
    \/ Arrive
    \/ Validate
    \/ ServeCached
    \/ ResolveOnMiss
    \/ GetQuoteApp
    \/ Canonicalize
    \/ ReturnNaive
    \/ ReadChain
    \/ Correct
    \/ Forward
    \/ Respond
    \/ \E k \in AppSwapIds : ExpireCacheApp(k)

SpecApp == InitApp /\ [][NextApp]_vars

----------------------------------------------------------------------------
(* Vocabulary of the claims, stated from the request and the route alone *)

Done == pc = "done"

\* A quote was found and its path canonicalized
Canonical == canon # NoCanon

\* get_aerodrome_quote returned a result and no reason
ReturnedResult ==
    ret.kind = "returned" /\ ret.result # <<>> /\ ret.reason = <<>>

\* token_in is the taxed token, compared without regard to case
SellsAgentKey == Lower(body.token_in) = Lower(body.agent_key_address)

\* the route's first pool is the taxed pool, compared without regard to case
FirstPoolIsPair ==
    quote # <<>> /\ Lower(quote[1].path[1].lp) = Lower(body.pair_address)

\* the wrapped form of the input token, in lower case
WrappedIn ==
    IF Lower(body.token_in) = ZERO_ADDR
    THEN Lower(ChainEth.wrapped_token_address) ELSE Lower(body.token_in)

RECURSIVE TailAfter(_, _)
\* The tail of the token path after the first i pools of the route, or
\* NoAddr once some pool among them holds neither the tail it is reached with
TailAfter(path, i) ==
    IF i = 0 THEN WrappedIn
    ELSE LET t == TailAfter(path, i - 1)
             t0 == Lower(path[i].token0_address)
             t1 == Lower(path[i].token1_address)
         IN  IF t = NoAddr THEN NoAddr
             ELSE IF t = t0 THEN t1
             ELSE IF t = t1 THEN t0
             ELSE NoAddr

\* The pools of the route that hold neither token of the tail they are
\* reached with
BadPools(path) ==
    { i \in 1..Len(path) :
        TailAfter(path, i - 1) # NoAddr /\ TailAfter(path, i) = NoAddr }

\* floor(a * b / c) for a, b >= 0 and c > 0
FloorMulDiv(a, b, c) == (a \div c) * b + MulDivQR(a % c, b, c)[1]

\* The correction as the specification writes it, from the request and the
\* values read from chain
SpecFee == (body.token_in_amount * body.total_fee_percent) \div 1000
SpecAfterTax == body.token_in_amount - SpecFee
SpecRemaining == SpecAfterTax - ((SpecAfterTax * chainv.fee_bps) \div 10000)
SpecAkIsToken0 ==
    Lower(quote[1].path[1].token0_address) = Lower(body.agent_key_address)
SpecTokenReserve ==
    IF SpecAkIsToken0 THEN chainv.reserves[1] ELSE chainv.reserves[2]
SpecBaseReserve ==
    IF SpecAkIsToken0 THEN chainv.reserves[2] ELSE chainv.reserves[1]
\* remaining * base_reserve / (token_reserve + remaining), cut to its integer
\* part: the floor of the quotient when it is not negative
SpecRealBase ==
    LET den == SpecTokenReserve + SpecRemaining
        mag == FloorMulDiv(Abs(SpecRemaining), SpecBaseReserve, Abs(den))
    IN  IF (SpecRemaining < 0) # (den < 0) THEN 0 - mag ELSE mag

\* The example of the specification
IsExample ==
    /\ body.token_in_amount = 1000000
    /\ body.total_fee_percent = 30
    /\ chainv.fee_bps = 30
    /\ SpecTokenReserve = 50000000
    /\ SpecBaseReserve = 20000000

----------------------------------------------------------------------------
(* Claims *)

\* C1: a request that is not a sale of agent_key_address, or whose route
\* does not start at pair_address, and whose route canonicalizes, ends with
\* the Route Finder's amount_out as a decimal string and the canonical path,
\* whatever total_fee_percent is.
C1_PassThrough ==
    (Done /\ Canonical /\ (~SellsAgentKey \/ ~FirstPoolIsPair))
        => ret = Returned(<<[quote |-> Str(quote[1].amount_out),
                             path |-> canon.swap_path]>>, <<>>)

\* C1 witness: a taxed sale of the agent key over two hops that starts at
\* another pool than pair_address has been answered.
C1_Witness ==
    /\ Done /\ ReturnedResult
    /\ SellsAgentKey /\ ~FirstPoolIsPair
    /\ body.total_fee_percent = 30
    /\ Len(canon.token_path) = 3

\* A sale of the agent key whose route starts at the taxed pool
TaxedSale == SellsAgentKey /\ FirstPoolIsPair

\* C2 (as claimed): a single-hop sale through pair_address is answered with
\* real_base_amount, computed from the live reserves.
C2_SingleHopCorrected ==
    (Done /\ ReturnedResult /\ TaxedSale /\ Len(canon.token_path) = 2)
        => ret.result[1].quote = Str(IntOf(corr[1].real_base_amount))

\* C3: a sale through pair_address followed by exactly one more hop is
\* answered with the router's output of that hop for real_base_amount, the
\* first-hop output after transfer tax and pool fee, whatever amount_out the
\* Route Finder reported.
C3_ForwardsRealBase ==
    (Done /\ ReturnedResult /\ TaxedSale /\ Len(canon.token_path) = 3)
        => ret.result[1].quote = Str(HopOut(SpecRealBase, canon.swap_path[2]))

\* C3 witness: such a sale has been answered, with an amount that is not
\* the Route Finder's.
C3_Witness ==
    /\ Done /\ ReturnedResult /\ TaxedSale
    /\ Len(canon.token_path) = 3
    /\ body.total_fee_percent = 30
    /\ ret.result[1].quote # Str(quote[1].amount_out)

\* C4 (as claimed): a sale through pair_address over more than two tokens
\* whose forwarding call succeeds is answered with the last element of the
\* amounts that call returns.
C4_ForwardsAnyLength ==
    (Done /\ corr # <<>> /\ Len(canon.token_path) > 2
          /\ IntOf(corr[1].real_base_amount) >= 0
          /\ ret.exc # "ChainReadFailed: getAmountsOut")
        => LET hops == SubSeq(canon.swap_path, 2, Len(canon.swap_path))
               amounts == GetAmountsOut(IntOf(corr[1].real_base_amount), hops)
           IN  /\ ReturnedResult
               /\ ret.result[1].quote = Str(amounts[Len(amounts)])

\* C5 (as claimed): a total_fee_percent above 1000 is stopped before any
\* arithmetic, and wherever the correction is reached 0 <= fee <= amount_in
\* and remaining >= 0, after the transfer tax and after the pool fee.
C5_FeeBounds ==
    /\ body.total_fee_percent > 1000 => (chainv = NoChain /\ corr = <<>>)
    /\ chainv # NoChain =>
          /\ 0 <= chainv.fee
          /\ chainv.fee <= quote[1].amount_in
          /\ quote[1].amount_in - chainv.fee >= 0
    /\ corr # <<>> => corr[1].remaining >= 0


\* C6 (as claimed): fee, remaining and real_base_amount follow the stated
\* arithmetic in the stated order, and the example yields fee = 30_000,
\* remaining = 967_090 and real_base_amount = 379_275.
C6_ArithmeticAsClaimed ==
    corr # <<>> =>
        /\ chainv.fee = SpecFee
        /\ corr[1].remaining = SpecRemaining
        /\ IntOf(corr[1].real_base_amount) = SpecRealBase
        /\ IsExample =>
              /\ chainv.fee = 30000
              /\ corr[1].remaining = 967090
              /\ IntOf(corr[1].real_base_amount) = 379275

\* C6 (amended): fee = floor(amount_in * total_fee_percent / 1000), then
\* remaining = amount_in - fee, then remaining -= floor(remaining * fee_bps
\* / 10000), then real_base_amount = remaining * base_reserve /
\* (token_reserve + remaining) by true division, not floored, its integer
\* part being the floor of the quotient when remaining >= 0; token_reserve
\* is reserve0 iff the pool's token0 is agent_key_address. The example yields
\* fee = 30_000, remaining = 967_090 and real_base_amount = 379_495.87, of
\* integer part 379_495.
C6_Arithmetic ==
    corr # <<>> =>
        /\ chainv.fee = SpecFee
        /\ corr[1].remaining = SpecRemaining
        /\ IntOf(corr[1].real_base_amount) = SpecRealBase
        /\ SpecRemaining >= 0 =>
              IntOf(corr[1].real_base_amount) =
                  FloorMulDiv(SpecRemaining, SpecBaseReserve,
                              SpecTokenReserve + SpecRemaining)
        /\ IsExample =>
              /\ chainv.fee = 30000
              /\ corr[1].remaining = 967090
              /\ IntOf(corr[1].real_base_amount) = 379495
              /\ ~corr[1].real_base_amount.whole

\* C6 witness: the example has been computed, on a pool whose token0 is the
\* agent key and on one whose token1 is.
C6_Witness == corr # <<>> /\ IsExample /\ SpecAkIsToken0

C6_WitnessToken1 == corr # <<>> /\ IsExample /\ ~SpecAkIsToken0

\* C7: when some pool of the route holds neither token of the path's tail,
\* the operation ends in the error that names the first such pool, whatever
\* its position and whether or not the request is a sale, and no result (no
\* path, no amount) is returned.
C7_PathInconsistentFatal ==
    (quote # <<>> /\ BadPools(quote[1].path) # {} /\ pc # "canonicalize")
        => LET bad == CHOOSE i \in BadPools(quote[1].path) : TRUE
           IN  /\ Done
               /\ ret.kind = "raised"
               /\ ret.exc = "ValueError: token_in not found in pool"
               /\ ret.pool = quote[1].path[bad].lp
               /\ ret.result = <<>>
               /\ canon = NoCanon

\* C7 witness: a sale whose route breaks at its last pool, after the taxed
\* pool, has ended in that error.
C7_Witness ==
    /\ Done /\ quote # <<>> /\ TaxedSale
    /\ Len(quote[1].path) = 3
    /\ BadPools(quote[1].path) = {3}
    /\ ret.kind = "raised"

\* C8 (as claimed): every invocation that passed validation ends by
\* returning either a result and no reason, or no result and a non-empty
\* reason; no failure leaves the operation as an exception.
C8_ResultOrReason ==
    (Done /\ ret # Rejected) =>
        /\ ret.kind = "returned"
        /\ \/ ret.result # <<>> /\ ret.reason = <<>>
           \/ ret.result = <<>> /\ ret.reason # <<>> /\ ret.reason[1] # ""

\* C9: once the route is canonicalized there is one hop per pool, the first
\* hop starts at the wrapped input token, hop i joins the two tokens of pool
\* i, consecutive hops share a token, and every hop is marked not stable and
\* carries the configured factory, whatever the pool's own flag; a returned
\* result carries exactly this path.
C9_CanonicalShape ==
    Canonical =>
        LET path == quote[1].path
            hops == canon.swap_path
        IN  /\ Len(hops) = Len(path)
            /\ hops[1].from = ToChecksum(WrappedIn)
            /\ \A i \in 1..Len(hops) :
                  /\ {Lower(hops[i].from), Lower(hops[i].to)} =
                        {Lower(path[i].token0_address), Lower(path[i].token1_address)}
                  /\ hops[i].stable = FALSE
                  /\ hops[i].factory = ToChecksum(factory_address)
            /\ \A i \in 1..(Len(hops) - 1) : hops[i].to = hops[i + 1].from
            /\ ret.result # <<>> => ret.result[1].path = hops

\* C9 witness: a three-pool route through a stable pool, entered with the
\* native token, has been answered.
C9_Witness ==
    /\ Done /\ ReturnedResult
    /\ Lower(body.token_in) = ZERO_ADDR
    /\ Len(canon.swap_path) = 3
    /\ \E i \in 1..3 : quote[1].path[i].stable


\* The calls inside the locked section of swap id k: past their SET NX of
\* the lock key and not yet past their DELETE of it
InSection(k) ==
    { c \in CallIds : calls[c].swap_id = k /\ calls[c].pc \in {"locked", "release"} }

\* C10 (as claimed): at most one call per swap id is inside the locked
\* section at a time, lock expiry included, and no call has deleted a lock
\* key that another call had set.
C10_LockExclusive ==
    /\ \A k \in SwapIds : Cardinality(InSection(k)) <= 1
    /\ ~ghost.foreign


\* C11 (as claimed): a reply served from the cache to a request with
\* use_cache carries a quote that was computed for the same chain_id,
\* token_in and token_out and for the same token_in_amount, pair_address,
\* agent_key_address and total_fee_percent as the request it answers.
C11_CacheHitMatchesRequest ==
    (app.response # <<>> /\ app.response[1].from_cache)
        => /\ body.use_cache
           /\ app.response[1].computed_for = <<RequestOf(body)>>

====
